---- MODULE Spec2Model ----
(***************************************************************************)
(* The Flask "countries" REST API of app.py: an in-memory list of country  *)
(* dictionaries and one handler per (verb, path).  A request is received,  *)
(* handled by its handler in one step, and replied to.                     *)
(***************************************************************************)
EXTENDS Integers, Sequences, FiniteSets, TLC

VARIABLES countries, request, response, pc, country

vars == <<countries, request, response, pc, country>>

(***************************************************************************)
(* Bounds of the exploration.                                              *)
(***************************************************************************)
\* ids handed out by POST stay <= MaxId
MaxId == 4
\* worker threads of the threaded server in the concurrent specification
NumThreads == 2

(***************************************************************************)
(* JSON values: a value carries its JSON type.                             *)
(***************************************************************************)
Str(s) == [type |-> "string", val |-> s]
Num(s) == [type |-> "number", val |-> s]

Max(S) == CHOOSE x \in S : \A y \in S : y <= x

\* app.py:63-71
schema ==
  [ properties |-> [name |-> "string", capital |-> "string", area |-> "number"],
    required   |-> {"name", "capital"} ]

\* app.py:73-77, the list the module is loaded with
SeedCountries ==
  << [id |-> 1, name |-> Str("Thailand"),  capital |-> Str("Bangkok"),  area |-> Num("513120")],
     [id |-> 2, name |-> Str("Australia"), capital |-> Str("Canberra"), area |-> Num("7617930")],
     [id |-> 3, name |-> Str("Egypt"),     capital |-> Str("Cairo"),    area |-> Num("1010408")] >>

\* app.py:109, 402, 434
expected_payload_attributes == {"name", "capital", "area"}

(***************************************************************************)
(* Request bodies.  A body is not JSON at all, a JSON object (a dict) or a *)
(* JSON array (a list).                                                    *)
(***************************************************************************)
NotJson     == [kind |-> "notjson"]
Object(d)   == [kind |-> "object", dict |-> d]
Array(s)    == [kind |-> "array", items |-> s]
NoBody      == [kind |-> "nobody"]

PayloadKeys == {"name", "capital", "area", "population"}

PayloadValue(k) ==
  CASE k = "name"       -> Str("Germany")
    [] k = "capital"    -> Str("Berlin")
    [] k = "area"       -> Num("357022")
    [] k = "population" -> Num("83")

\* name is a number: the right keys, the wrong type
IllTypedPayload ==
  [k \in expected_payload_attributes |->
      IF k = "name" THEN Num("49") ELSE PayloadValue(k)]

Arrays ==
  { <<>>, <<"name">>, <<"name", "capital", "area">>, <<"name", "name", "capital">> }

Bodies ==
  {Object([k \in S |-> PayloadValue(k)]) : S \in SUBSET PayloadKeys}
    \cup {Object(IllTypedPayload)}
    \cup {Array(s) : s \in Arrays}
    \cup {NotJson}

IsObject(b) == b.kind = "object"
IsArray(b)  == b.kind = "array"

\* the keys a "for key in request.json" loop visits, and len(payload)
KeysOf(b) == IF IsObject(b) THEN DOMAIN b.dict
             ELSE {b.items[i] : i \in DOMAIN b.items}
LenOf(b)  == IF IsObject(b) THEN Cardinality(DOMAIN b.dict) ELSE Len(b.items)

(***************************************************************************)
(* The <parm_id> path segment is a string; int() converts it.              *)
(***************************************************************************)
Digits == <<"1", "2", "3", "4", "5", "6", "7", "8", "9">>

ParmIds == {Digits[n] : n \in 1..MaxId} \cup {"x"}

IsInt(s) == \E n \in DOMAIN Digits : Digits[n] = s
int(s)   == CHOOSE n \in DOMAIN Digits : Digits[n] = s

(***************************************************************************)
(* Outcomes of a handler: a returned response, an abort(code), or another  *)
(* exception.  Every outcome carries the list as the handler leaves it.    *)
(***************************************************************************)
Return(cs, status, body) == [countries |-> cs, kind |-> "return", status |-> status, body |-> body]
Abort(cs, code)          == [countries |-> cs, kind |-> "abort", status |-> code, body |-> NoBody]
Raise(cs, name)          == [countries |-> cs, kind |-> "raise", status |-> 0, body |-> [error |-> name]]

JsonRecord(c) == [kind |-> "object", dict |-> c]
JsonList(cs)  == [kind |-> "array", items |-> cs]
EmptyBody     == [kind |-> "object", dict |-> <<>>]

HttpName(code) ==
  CASE code = 400 -> "Bad Request"
    [] code = 404 -> "Not Found"
    [] code = 415 -> "Unsupported Media Type"
    [] code = 422 -> "Unprocessable Entity"

\* app.py:136-160
handle_exception(o) ==
  CASE o.kind = "abort"  ->
         [status |-> o.status,
          body   |-> [kind |-> "error", code |-> o.status, message |-> HttpName(o.status)]]
    [] o.kind = "raise"  ->
         [status |-> 500, body |-> [kind |-> "error500", error |-> o.body.error]]
    [] o.kind = "return" ->
         [status |-> o.status, body |-> o.body]

\* the ids in the list
Ids(cs) == {cs[i]["id"] : i \in DOMAIN cs}

\* variants of _find_next_id: the "+ 1" forgotten; the length instead of the maximum
_find_next_id_max(cs) == Max({cs[i]["id"] : i \in DOMAIN cs})
_find_next_id_len(cs) == Len(cs) + 1

\* app.py:80-81
_find_next_id(cs) == Max({cs[i]["id"] : i \in DOMAIN cs}) + 1

\* the indexes whose record matches the path id, as the scanning loops see them
Matches(cs, parm_id) == {i \in DOMAIN cs : cs[i]["id"] = int(parm_id)}
FirstMatch(cs, parm_id) == CHOOSE i \in Matches(cs, parm_id) : \A j \in Matches(cs, parm_id) : i <= j

\* app.py:84-86
get_countries(cs) == Return(cs, 200, JsonList(cs))

\* app.py:247-249
get_country(cs) ==
  IF Len(cs) < 2 THEN Raise(cs, "IndexError")
  ELSE Return(cs, 200, JsonRecord(cs[2]))

\* app.py:382-393
get_country_by_id(cs, parm_id) ==
  IF Len(cs) = 0 THEN Abort(cs, 404)
  ELSE IF ~IsInt(parm_id) THEN Raise(cs, "ValueError")
  ELSE IF Matches(cs, parm_id) # {} THEN Return(cs, 200, JsonRecord(cs[FirstMatch(cs, parm_id)]))
  ELSE Abort(cs, 404)

\* app.py:93, the expects_json(schema) decorator
SchemaValid(d) ==
  /\ schema.required \subseteq DOMAIN d
  /\ \A k \in DOMAIN d \cap DOMAIN schema.properties : d[k].type = schema.properties[k]

\* app.py:93-124: the decorator and the checks of add_country; "pass" when none aborts
Pass(cs) == [countries |-> cs, kind |-> "pass", status |-> 0, body |-> NoBody]

add_country_checks(cs, body) ==
  IF body.kind = "notjson" THEN Abort(cs, 415)
  ELSE IF ~IsObject(body) \/ ~SchemaValid(body.dict) THEN Abort(cs, 400)
  ELSE IF \E key \in KeysOf(body) : key \notin expected_payload_attributes THEN Abort(cs, 422)
  ELSE IF Len(cs) = 0 THEN Raise(cs, "IndexError")
  ELSE IF LenOf(body) + 1 # Cardinality(DOMAIN cs[1]) THEN Abort(cs, 400)
  ELSE Pass(cs)

\* app.py:129: country["id"] = _find_next_id()
SetId(d, cs) == [k \in DOMAIN d \cup {"id"} |-> IF k = "id" THEN _find_next_id(cs) ELSE d[k]]

\* variant of add_country: countries.insert(0, country) instead of append
add_country_front(cs, body) ==
  LET checked == add_country_checks(cs, body) IN
  IF checked.kind # "pass" THEN checked
  ELSE LET new == SetId(body.dict, cs)
       IN  Return(<<new>> \o cs, 201, JsonRecord(new))

\* app.py:92-131
add_country(cs, body) ==
  LET checked == add_country_checks(cs, body) IN
  IF checked.kind # "pass" THEN checked
  ELSE LET new == SetId(body.dict, cs)
       IN  Return(Append(cs, new), 201, JsonRecord(new))

\* app.py:419-420, 451-452: for key in payload: countries[i][key] = payload[key]
Assign(c, d) == [k \in DOMAIN c \cup DOMAIN d |-> IF k \in DOMAIN d THEN d[k] ELSE c[k]]

\* app.py:415-425 and 447-457, the scan shared by PUT and PATCH
Overwrite(cs, parm_id, body) ==
  IF ~IsInt(parm_id) THEN Raise(cs, "ValueError")
  ELSE IF Matches(cs, parm_id) = {} THEN Abort(cs, 404)
  ELSE LET i == FirstMatch(cs, parm_id) IN
       IF IsArray(body) /\ Len(body.items) > 0 THEN Raise(cs, "TypeError")
       ELSE LET d   == IF IsObject(body) THEN body.dict ELSE <<>>
                new == [cs EXCEPT ![i] = Assign(cs[i], d)]
            IN  Return(new, 200, JsonRecord(new[i]))

\* variant of put_country: the attribute count is checked after the overwrite
put_country_late_check(cs, parm_id, body) ==
  IF body.kind = "notjson" THEN Abort(cs, 415)
  ELSE IF \E key \in KeysOf(body) : key \notin expected_payload_attributes THEN Abort(cs, 422)
  ELSE IF Len(cs) = 0 THEN Raise(cs, "IndexError")
  ELSE LET o == Overwrite(cs, parm_id, body) IN
       IF o.kind = "return" /\ LenOf(body) + 1 # Cardinality(DOMAIN cs[1])
       THEN Abort(o.countries, 400)
       ELSE o

\* variant of put_country: the comparison of patch_country (">" for "!=")
put_country_gt(cs, parm_id, body) ==
  IF body.kind = "notjson" THEN Abort(cs, 415)
  ELSE IF \E key \in KeysOf(body) : key \notin expected_payload_attributes THEN Abort(cs, 422)
  ELSE IF Len(cs) = 0 THEN Raise(cs, "IndexError")
  ELSE IF LenOf(body) + 1 > Cardinality(DOMAIN cs[1]) THEN Abort(cs, 400)
  ELSE Overwrite(cs, parm_id, body)

\* app.py:397-425
put_country(cs, parm_id, body) ==
  IF body.kind = "notjson" THEN Abort(cs, 415)
  ELSE IF \E key \in KeysOf(body) : key \notin expected_payload_attributes THEN Abort(cs, 422)
  ELSE IF Len(cs) = 0 THEN Raise(cs, "IndexError")
  ELSE IF LenOf(body) + 1 # Cardinality(DOMAIN cs[1]) THEN Abort(cs, 400)
  ELSE Overwrite(cs, parm_id, body)

\* variant of patch_country: the attribute count is checked before the keys
patch_country_count_first(cs, parm_id, body) ==
  IF body.kind = "notjson" THEN Abort(cs, 415)
  ELSE IF Len(cs) = 0 THEN Raise(cs, "IndexError")
  ELSE IF LenOf(body) + 1 > Cardinality(DOMAIN cs[1]) THEN Abort(cs, 400)
  ELSE IF \E key \in KeysOf(body) : key \notin expected_payload_attributes THEN Abort(cs, 422)
  ELSE Overwrite(cs, parm_id, body)

\* variant of patch_country: ">=" for ">"
patch_country_ge(cs, parm_id, body) ==
  IF body.kind = "notjson" THEN Abort(cs, 415)
  ELSE IF \E key \in KeysOf(body) : key \notin expected_payload_attributes THEN Abort(cs, 422)
  ELSE IF Len(cs) = 0 THEN Raise(cs, "IndexError")
  ELSE IF LenOf(body) + 1 >= Cardinality(DOMAIN cs[1]) THEN Abort(cs, 400)
  ELSE Overwrite(cs, parm_id, body)

\* app.py:429-457
patch_country(cs, parm_id, body) ==
  IF body.kind = "notjson" THEN Abort(cs, 415)
  ELSE IF \E key \in KeysOf(body) : key \notin expected_payload_attributes THEN Abort(cs, 422)
  ELSE IF Len(cs) = 0 THEN Raise(cs, "IndexError")
  ELSE IF LenOf(body) + 1 > Cardinality(DOMAIN cs[1]) THEN Abort(cs, 400)
  ELSE Overwrite(cs, parm_id, body)

\* del countries[i]
DelAt(cs, i) == SubSeq(cs, 1, i - 1) \o SubSeq(cs, i + 1, Len(cs))

\* variant of delete_country: del countries[-1] instead of del countries[i]
delete_country_last(cs, parm_id) ==
  IF Len(cs) = 0 THEN Abort(cs, 404)
  ELSE IF ~IsInt(parm_id) THEN Raise(cs, "ValueError")
  ELSE IF Matches(cs, parm_id) # {} THEN Return(DelAt(cs, Len(cs)), 204, EmptyBody)
  ELSE Abort(cs, 404)

\* app.py:461-474
delete_country(cs, parm_id) ==
  IF Len(cs) = 0 THEN Abort(cs, 404)
  ELSE IF ~IsInt(parm_id) THEN Raise(cs, "ValueError")
  ELSE IF Matches(cs, parm_id) # {} THEN Return(DelAt(cs, FirstMatch(cs, parm_id)), 204, EmptyBody)
  ELSE Abort(cs, 404)

(***************************************************************************)
(* The server, one request at a time.                                      *)
(***************************************************************************)
NoRequest  == [op |-> "none", parm_id |-> "", body |-> NoBody]
NoResponse == [status |-> 0, body |-> NoBody]

Requests ==
  [op : {"GET_ALL", "GET_ONE"}, parm_id : {""}, body : {NoBody}]
    \cup [op : {"GET_ID", "DELETE"}, parm_id : ParmIds, body : {NoBody}]
    \cup [op : {"POST"}, parm_id : {""}, body : Bodies]
    \cup [op : {"PUT", "PATCH"}, parm_id : ParmIds, body : Bodies]

Idle     == request.op = "none"
Pending  == request.op # "none" /\ response.status = 0
Answered == response.status # 0

Threads == 1..NumThreads

Init ==
  /\ countries = SeedCountries
  /\ request = NoRequest
  /\ response = NoResponse
  /\ pc = [t \in Threads |-> "idle"]
  /\ country = [t \in Threads |-> NoBody]

\* a POST that would hand out an id beyond MaxId is not sent
WithinBound(r) ==
  IF r.op = "POST" /\ Len(countries) > 0 THEN _find_next_id(countries) <= MaxId ELSE TRUE

Receive ==
  /\ Idle
  /\ \E r \in Requests :
       /\ WithinBound(r)
       /\ request' = r
  /\ response' = NoResponse
  /\ UNCHANGED <<countries, pc, country>>

Finish(o) ==
  /\ countries' = o.countries
  /\ response' = handle_exception(o)
  /\ UNCHANGED <<request, pc, country>>

GetCountries   == Pending /\ request.op = "GET_ALL" /\ Finish(get_countries(countries))
GetCountry     == Pending /\ request.op = "GET_ONE" /\ Finish(get_country(countries))
GetCountryById == Pending /\ request.op = "GET_ID"
                     /\ Finish(get_country_by_id(countries, request.parm_id))
AddCountry     == Pending /\ request.op = "POST"
                     /\ Finish(add_country(countries, request.body))
PutCountry     == Pending /\ request.op = "PUT"
                     /\ Finish(put_country(countries, request.parm_id, request.body))
PatchCountry   == Pending /\ request.op = "PATCH"
                     /\ Finish(patch_country(countries, request.parm_id, request.body))
DeleteCountry  == Pending /\ request.op = "DELETE"
                     /\ Finish(delete_country(countries, request.parm_id))

Reply ==
  /\ Answered
  /\ request' = NoRequest
  /\ response' = NoResponse
  /\ UNCHANGED <<countries, pc, country>>

Next ==
  \/ Receive
  \/ GetCountries
  \/ GetCountry
  \/ GetCountryById
  \/ AddCountry
  \/ PutCountry
  \/ PatchCountry
  \/ DeleteCountry
  \/ Reply

Spec == Init /\ [][Next]_vars

(***************************************************************************)
(* The threaded server: POST /countries handled by several threads at      *)
(* once.  Nothing locks the list, so a thread may be preempted between any *)
(* two statements of add_country; the statements that read or write the    *)
(* list are lines 123 (the checks), 129 (the id) and 130 (the append).     *)
(***************************************************************************)
ThreadReceive(t) ==
  /\ pc[t] = "idle"
  /\ \E b \in Bodies : country' = [country EXCEPT ![t] = b]
  /\ pc' = [pc EXCEPT ![t] = "checks"]
  /\ UNCHANGED <<countries, request, response>>

\* app.py:93-124
ThreadChecks(t) ==
  /\ pc[t] = "checks"
  /\ LET checked == add_country_checks(countries, country[t]) IN
       IF checked.kind = "pass"
       THEN /\ pc' = [pc EXCEPT ![t] = "find_id"]
            /\ country' = [country EXCEPT ![t] = country[t].dict]
       ELSE /\ pc' = [pc EXCEPT ![t] = "idle"]
            /\ country' = [country EXCEPT ![t] = NoBody]
  /\ UNCHANGED <<countries, request, response>>

\* variant of ThreadFindId: the id skips the ids other threads hold
ThreadFindId_reserving(t) ==
  /\ pc[t] = "find_id"
  /\ _find_next_id(countries) <= MaxId
  /\ LET held == {country[u]["id"] : u \in {v \in Threads : pc[v] = "append"}}
          n    == Max(Ids(countries) \cup held) + 1
     IN  country' = [country EXCEPT ![t] = [k \in DOMAIN country[t] \cup {"id"} |->
                                              IF k = "id" THEN n ELSE country[t][k]]]
  /\ pc' = [pc EXCEPT ![t] = "append"]
  /\ UNCHANGED <<countries, request, response>>

\* app.py:126-129
ThreadFindId(t) ==
  /\ pc[t] = "find_id"
  /\ _find_next_id(countries) <= MaxId
  /\ country' = [country EXCEPT ![t] = SetId(country[t], countries)]
  /\ pc' = [pc EXCEPT ![t] = "append"]
  /\ UNCHANGED <<countries, request, response>>

\* app.py:130-131
ThreadAppend(t) ==
  /\ pc[t] = "append"
  /\ countries' = Append(countries, country[t])
  /\ country' = [country EXCEPT ![t] = NoBody]
  /\ pc' = [pc EXCEPT ![t] = "idle"]
  /\ UNCHANGED <<request, response>>

NextThreads ==
  \E t \in Threads :
    \/ ThreadReceive(t)
    \/ ThreadChecks(t)
    \/ ThreadFindId(t)
    \/ ThreadAppend(t)

SpecThreads == Init /\ [][NextThreads]_vars

(***************************************************************************)
(* Vocabulary of the properties.                                           *)
(***************************************************************************)
NameCapitalArea == {"name", "capital", "area"}

UniqueIds(cs) == \A i, j \in DOMAIN cs : i # j => cs[i]["id"] # cs[j]["id"]

\* the step in which a handler answers the pending request
Answering == Pending /\ response'.status # 0

\* the path id names a record of the list
IdPresent == IsInt(request.parm_id) /\ int(request.parm_id) \in Ids(countries)

\* the pending request carries a JSON object whose keys are all recognized
RecognizedObject == IsObject(request.body) /\ DOMAIN request.body.dict \subseteq NameCapitalArea

\* ... and exactly name, capital and area
ExactObject == IsObject(request.body) /\ DOMAIN request.body.dict = NameCapitalArea

\* name and capital are strings, area is a number
WellTyped ==
  /\ request.body.dict["name"].type = "string"
  /\ request.body.dict["capital"].type = "string"
  /\ request.body.dict["area"].type = "number"

\* a POST body every check of add_country accepts
GermanyBody == Object([k \in NameCapitalArea |-> PayloadValue(k)])

ErrorStatus == {400, 404, 415, 422, 500}

(***************************************************************************)
(* C1                                                                      *)
(***************************************************************************)
\* the answer is 201, the returned record is the payload plus id = max + 1,
\* and it is the new last element of the list
Created ==
  /\ response'.status = 201
  /\ response'.body.dict["id"] = Max(Ids(countries)) + 1
  /\ \A k \in NameCapitalArea : response'.body.dict[k] = request.body.dict[k]
  /\ countries' = Append(countries, response'.body.dict)

\* C1 as claimed: in every reachable list, a POST whose payload has exactly the
\* keys name, capital and area is answered 201 with id = max id + 1 and the
\* record is appended last.
C1_AsClaimed ==
  [][(Answering /\ request.op = "POST" /\ ExactObject) => Created]_vars

\* C1 amended: the same for a payload that is also well typed (name and capital
\* strings, area a number) on a non-empty list; on the empty list the request
\* is answered 500 and the list stays empty.
C1_PostCreates ==
  [][(Answering /\ request.op = "POST" /\ ExactObject /\ WellTyped)
        => IF Len(countries) > 0
           THEN Created
           ELSE response'.status = 500 /\ countries' = countries]_vars

C1_Witness ==
  /\ Answered /\ request.op = "POST" /\ ExactObject /\ WellTyped
  /\ response.status = 201
  /\ response.body.dict["id"] = 4
  /\ countries[Len(countries)] = response.body.dict

(***************************************************************************)
(* C2                                                                      *)
(***************************************************************************)
\* C2: with requests handled one at a time, no two records of the list have
\* the same id.
C2_UniqueIds == UniqueIds(countries)

\* a POST answered 201 after a DELETE made room below the seed's greatest id
C2_Witness ==
  /\ Answered /\ request.op = "POST" /\ response.status = 201
  /\ Len(countries) >= 2
  /\ response.body.dict["id"] <= 3

(***************************************************************************)
(* C3                                                                      *)
(***************************************************************************)
WithoutId(cs, n) == SelectSeq(cs, LAMBDA c : c["id"] # n)

\* C3: DELETE of a present id answers 204 with an empty body, removes exactly
\* that record (the others keep their values and order), and a GET of the same
\* id on the resulting list answers 404.
C3_DeleteRemoves ==
  [][(Answering /\ request.op = "DELETE" /\ IdPresent)
        => /\ response'.status = 204
           /\ response'.body = EmptyBody
           /\ Len(countries') = Len(countries) - 1
           /\ countries' = WithoutId(countries, int(request.parm_id))
           /\ handle_exception(get_country_by_id(countries', request.parm_id)).status = 404]_vars

\* the middle record of three was deleted
C3_Witness ==
  /\ Answered /\ request.op = "DELETE" /\ response.status = 204
  /\ request.parm_id = "2"
  /\ Ids(countries) = {1, 3}

(***************************************************************************)
(* C4                                                                      *)
(***************************************************************************)
\* C4: in every reachable list and for every path id, a PUT whose payload has
\* only recognized keys but fewer than 3 of them is answered 400.
C4_PutTooFew ==
  (Answered /\ request.op = "PUT" /\ RecognizedObject
     /\ Cardinality(DOMAIN request.body.dict) < 3)
    => response.status = 400

(***************************************************************************)
(* C5                                                                      *)
(***************************************************************************)
\* C5: in every reachable list (the empty one too) and for every path id, a
\* PATCH whose payload has a key outside name, capital, area is answered 422,
\* whatever and however many its other keys.
C5_PatchUnknownKey ==
  (Answered /\ request.op = "PATCH" /\ IsObject(request.body)
     /\ \E k \in DOMAIN request.body.dict : k \notin NameCapitalArea)
    => response.status = 422

\* four keys, one unknown, on the empty list
C5_Witness ==
  /\ Answered /\ request.op = "PATCH" /\ IsObject(request.body)
  /\ DOMAIN request.body.dict = PayloadKeys
  /\ Len(countries) = 0
  /\ response.status = 422

(***************************************************************************)
(* C6                                                                      *)
(***************************************************************************)
\* C6: a POST, PUT, PATCH or DELETE answered with 400, 404, 415, 422 or 500
\* leaves the list as it was: same records, same values, same order.
C6_ErrorsChangeNothing ==
  [][(Answering /\ request.op \in {"POST", "PUT", "PATCH", "DELETE"}
        /\ response'.status \in ErrorStatus)
        => countries' = countries]_vars

\* a PUT that passed every check and failed inside the assignment loop
C6_Witness ==
  /\ Answered /\ request.op = "PUT" /\ response.status = 500
  /\ IsArray(request.body)
  /\ IdPresent

(***************************************************************************)
(* C7                                                                      *)
(***************************************************************************)
\* C7: PATCH of a present id with any subset of name, capital, area as keys
\* answers 200; the matching record takes the payload's value for each payload
\* key and keeps its id and its other fields; the other records and the order
\* of the list are unchanged.
C7_PatchMerges ==
  [][(Answering /\ request.op = "PATCH" /\ RecognizedObject /\ IdPresent)
        => /\ response'.status = 200
           /\ Len(countries') = Len(countries)
           /\ \A i \in DOMAIN countries :
                IF countries[i]["id"] = int(request.parm_id)
                THEN /\ DOMAIN countries'[i] = DOMAIN countries[i]
                     /\ \A k \in DOMAIN countries[i] :
                          countries'[i][k] = IF k \in DOMAIN request.body.dict
                                             THEN request.body.dict[k]
                                             ELSE countries[i][k]
                ELSE countries'[i] = countries[i]]_vars

\* a one-key PATCH was answered 200
C7_Witness ==
  /\ Answered /\ request.op = "PATCH" /\ response.status = 200
  /\ IsObject(request.body)
  /\ DOMAIN request.body.dict = {"capital"}

(***************************************************************************)
(* C8                                                                      *)
(***************************************************************************)
\* C8 as claimed: some PUT payload of recognized keys that omits one of name,
\* capital, area is accepted with 200 on an existing id.
C8_AsClaimed ==
  \E b \in Bodies, p \in ParmIds :
    /\ IsObject(b) \/ IsArray(b)
    /\ KeysOf(b) \subseteq NameCapitalArea
    /\ KeysOf(b) # NameCapitalArea
    /\ handle_exception(put_country(countries, p, b)).status = 200

\* C8 amended: a PUT answered 200 carried a JSON object with exactly the keys
\* name, capital and area; no payload that omits one of them is accepted.
C8_PutNeedsAllThree ==
  (Answered /\ request.op = "PUT" /\ response.status = 200) => ExactObject

C8_Witness ==
  /\ Answered /\ request.op = "PUT" /\ response.status = 200
  /\ ExactObject

(***************************************************************************)
(* C9                                                                      *)
(***************************************************************************)
\* the id a thread holds between line 129 and line 130
Holding(t) == pc[t] = "append"

\* C9: with POSTs handled concurrently, two threads that both stand between
\* computing the id and appending, neither id yet in the list, hold the same
\* id (max id + 1): nothing reserves an id between the two statements.
C9_SameIdHeld ==
  \A t, u \in Threads :
    (t # u /\ Holding(t) /\ Holding(u)
       /\ country[t]["id"] \notin Ids(countries)
       /\ country[u]["id"] \notin Ids(countries))
      => /\ country[t]["id"] = country[u]["id"]
         /\ country[t]["id"] = Max(Ids(countries)) + 1

\* both have appended: the list holds two records of equal id
C9_Witness ==
  /\ ~UniqueIds(countries)
  /\ \A t \in Threads : pc[t] = "idle"

(***************************************************************************)
(* C10                                                                     *)
(***************************************************************************)
\* the answer a POST of name, capital, area gets on the list cs
NextPost(cs) == handle_exception(add_country(cs, GermanyBody))

\* the greatest id was deleted and the list is not empty
DeletedGreatest ==
  /\ Answering /\ request.op = "DELETE" /\ response'.status = 204
  /\ int(request.parm_id) = Max(Ids(countries))
  /\ Len(countries') > 0

\* C10 as claimed: after the record with the greatest id is deleted from a
\* list that stays non-empty, the next successful POST returns that id again.
C10_AsClaimed ==
  [][DeletedGreatest
        => /\ NextPost(countries').status = 201
           /\ NextPost(countries').body.dict["id"] = int(request.parm_id)]_vars

\* C10 amended: the next successful POST returns (greatest remaining id) + 1,
\* which is at most the deleted id and is the deleted id exactly when the
\* greatest remaining id is one less; a GET of the deleted id then answers 200
\* with the newly posted record.
C10_IdsNotRetired ==
  [][DeletedGreatest
        => LET post == NextPost(countries')
               d    == int(request.parm_id)
           IN  /\ post.status = 201
               /\ post.body.dict["id"] = Max(Ids(countries')) + 1
               /\ post.body.dict["id"] <= d
               /\ (post.body.dict["id"] = d) <=> (d - 1 \in Ids(countries'))
               /\ (d - 1 \in Ids(countries')) =>
                    LET got == handle_exception(
                                 get_country_by_id(Append(countries', post.body.dict),
                                                   request.parm_id))
                    IN  got.status = 200 /\ got.body.dict = post.body.dict]_vars

\* a POST was answered with the id of a seed record deleted before
C10_Witness ==
  /\ Answered /\ request.op = "POST" /\ response.status = 201
  /\ response.body.dict["id"] = 3
  /\ response.body.dict["name"] # SeedCountries[3]["name"]

====
